---- MODULE Spec2Model ----
(***************************************************************************)
(* Model of the two TCP clients of jkkang83/CSHEmulator:                   *)
(*   NetworkClient       (src/PythonClient/client_ui.py, asyncio)          *)
(*   ReconnectingClient  (src/SetupFiles/client_ui.py, threads)            *)
(* and of their frame extractors, NetworkClient._try_extract_frame and     *)
(* FrameParser.try_extract.                                                *)
(*                                                                         *)
(* Bytes are integers 0..255; a buffer is a sequence of bytes.  Positions  *)
(* in the helper operators are 0-based, as in the Python source.           *)
(* Times are in tenths of a second.                                        *)
(***************************************************************************)
EXTENDS Integers, Sequences, FiniteSets, TLC

\* ------------------------------------------------------------------------
\* Bytes and literals of the wire protocol
\* ------------------------------------------------------------------------

\* ord() of the bytes the code names: '@', CR, LF, and the characters of the
\* literals "A_D", "A_R" and of the sample commands.
Ord == [at |-> 64, cr |-> 13, lf |-> 10, A |-> 65, us |-> 95, D |-> 68,
        R |-> 82, P |-> 80, S |-> 83, M |-> 77, x |-> 120, sp |-> 32,
        plus |-> 43, minus |-> 45, d0 |-> 48, d9 |-> 57, hi |-> 255,
        repl |-> 65533]

AT == Ord.at
CR == Ord.cr
LF == Ord.lf

CRLF == <<CR, LF>>
TAIL == <<AT, CR, LF>>
TAG_A_D == <<Ord.A, Ord.us, Ord.D>>
TAG_A_R == <<Ord.A, Ord.us, Ord.R>>

\* ------------------------------------------------------------------------
\* Python bytes / bytearray primitives
\* ------------------------------------------------------------------------

Min(S) == CHOOSE m \in S : \A n \in S : m <= n

MinOf(a, b) == IF a <= b THEN a ELSE b

\* buf[a:b] (0 <= a), clipped to the buffer as Python slicing is.
Slice(buf, a, b) ==
    LET hi == MinOf(b, Len(buf))
    IN  IF a >= hi THEN <<>> ELSE SubSeq(buf, a + 1, hi)

\* buf.find(bytes([v]), start) restricted to positions < end; -1 if absent.
IndexIn(buf, v, start, end) ==
    LET S == {i \in start..(MinOf(end, Len(buf)) - 1) : buf[i + 1] = v}
    IN  IF S = {} THEN -1 ELSE Min(S)

\* buf.find(pat, start); -1 if absent.
Find(buf, pat, start) ==
    LET S == {i \in start..(Len(buf) - Len(pat)) :
                 SubSeq(buf, i + 1, i + Len(pat)) = pat}
    IN  IF S = {} THEN -1 ELSE Min(S)

\* bytes.decode("ascii", errors="replace"): a byte >= 128 becomes U+FFFD.
DecodeReplace(bs) == [i \in 1..Len(bs) |-> IF bs[i] >= 128 THEN Ord.repl ELSE bs[i]]

\* bytes.decode("ascii", errors="ignore"): bytes >= 128 are left out.
RECURSIVE DecodeIgnore(_)
DecodeIgnore(bs) ==
    IF bs = <<>> THEN <<>>
    ELSE IF Head(bs) >= 128 THEN DecodeIgnore(Tail(bs))
    ELSE <<Head(bs)>> \o DecodeIgnore(Tail(bs))

\* bytes.decode("ascii") (strict) raises on a byte >= 128.
DecodeStrictRaises(bs) == \E i \in 1..Len(bs) : bs[i] >= 128

\* ------------------------------------------------------------------------
\* int(str): optional surrounding whitespace, optional sign, decimal digits
\* with single underscores allowed between digits.
\* ------------------------------------------------------------------------

IsSpace(c) == c \in {9, 10, 11, 12, 13, 28, 29, 30, 31, 32}
IsDigit(c) == c >= Ord.d0 /\ c <= Ord.d9

RECURSIVE LStrip(_)
LStrip(s) == IF s # <<>> /\ IsSpace(Head(s)) THEN LStrip(Tail(s)) ELSE s

RECURSIVE RStrip(_)
RStrip(s) ==
    IF s # <<>> /\ IsSpace(s[Len(s)]) THEN RStrip(SubSeq(s, 1, Len(s) - 1)) ELSE s

RECURSIVE DigitsValue(_, _)
DigitsValue(s, acc) ==
    IF s = <<>> THEN acc
    ELSE IF Head(s) = Ord.us THEN DigitsValue(Tail(s), acc)
    ELSE DigitsValue(Tail(s), acc * 10 + (Head(s) - Ord.d0))

\* The digit part int() accepts: starts and ends with a digit, holds only
\* digits and underscores, no two underscores in a row.
DigitsOk(s) ==
    /\ s # <<>>
    /\ IsDigit(s[1]) /\ IsDigit(s[Len(s)])
    /\ \A i \in 1..Len(s) : IsDigit(s[i]) \/ s[i] = Ord.us
    /\ \A i \in 1..(Len(s) - 1) : ~(s[i] = Ord.us /\ s[i + 1] = Ord.us)

\* int(s) for a decoded string s: [ok |-> FALSE] stands for ValueError.
PyInt(s) ==
    LET t      == RStrip(LStrip(s))
        signed == t # <<>> /\ Head(t) \in {Ord.plus, Ord.minus}
        body   == IF signed THEN Tail(t) ELSE t
        neg    == signed /\ Head(t) = Ord.minus
    IN  IF DigitsOk(body)
        THEN [ok |-> TRUE,
              val |-> IF neg THEN 0 - DigitsValue(body, 0) ELSE DigitsValue(body, 0)]
        ELSE [ok |-> FALSE, val |-> 0]

\* ------------------------------------------------------------------------
\* Results of one extractor call.  some = TRUE: a frame was returned.
\* some = FALSE: None was returned; buf tells whether a byte was dropped.
\* ------------------------------------------------------------------------

NoFrame(buf) == [some |-> FALSE, frame |-> <<>>, buf |-> buf]

\* DropOne deleting the last byte instead of the first.
DropOne_last(buf) ==
    [some |-> FALSE, frame |-> <<>>, buf |-> Slice(buf, 0, Len(buf) - 1)]

\* del buf[0:1]; return None
DropOne(buf) == [some |-> FALSE, frame |-> <<>>, buf |-> Slice(buf, 1, Len(buf))]

\* Take cutting one byte short (crlf_idx + 1 for crlf_idx + 2).
Take_short(buf, count) ==
    [some |-> TRUE, frame |-> Slice(buf, 0, count - 1),
     buf |-> Slice(buf, count - 1, Len(buf))]

\* Take returning and removing a single byte whatever the count.
Take_first(buf, count) ==
    [some |-> TRUE, frame |-> Slice(buf, 0, 1), buf |-> Slice(buf, 1, Len(buf))]

\* out = bytes(buf[:count]); del buf[:count]; return out
Take(buf, count) ==
    [some |-> TRUE, frame |-> Slice(buf, 0, count), buf |-> Slice(buf, count, Len(buf))]

\* ------------------------------------------------------------------------
\* NetworkClient._try_extract_frame
\* ------------------------------------------------------------------------

\* _find_crlf(buf, 0)
NC_find_crlf(buf) == Find(buf, CRLF, 0)

\* _index_of(buf, byte_value, start)
NC_index_of(buf, byte_value, start) == IndexIn(buf, byte_value, start, Len(buf))

\* _get_ascii(buf, start, end_ex)
NC_get_ascii(buf, start, end_ex) == DecodeReplace(Slice(buf, start, end_ex))

\* The part shared by the A_D and the A_R branch once data_len is known:
\* wait for data_len + 3 more bytes, then require "@\r\n" right after them.
NC_take_sized(buf, second_at, data_len) ==
    LET data_start == second_at + 1
        after_data == data_start + data_len
    IN  IF Len(buf) < after_data + 3 THEN NoFrame(buf)
        ELSE IF ~(buf[after_data + 1] = AT
                  /\ Slice(buf, after_data + 1, after_data + 3) = CRLF)
             THEN DropOne(buf)
        ELSE Take(buf, after_data + 3)

\* if cmd == "A_D": ...
NC_branch_A_D(buf, at_idx) ==
    LET len_start == at_idx + 1
        second_at == NC_index_of(buf, AT, len_start)
    IN  IF second_at < 0 THEN NoFrame(buf)
        ELSE LET data_len == PyInt(NC_get_ascii(buf, len_start, second_at))
             IN  IF ~data_len.ok \/ data_len.val < 0 THEN DropOne(buf)
                 ELSE NC_take_sized(buf, second_at, data_len.val)

\* if cmd == "A_R": ...   data_len = 44 + frm_cnt * 8 * 6
NC_branch_A_R(buf, at_idx) ==
    LET cnt_start == at_idx + 1
        second_at == NC_index_of(buf, AT, cnt_start)
    IN  IF second_at < 0 THEN NoFrame(buf)
        ELSE LET frm_cnt == PyInt(NC_get_ascii(buf, cnt_start, second_at))
             IN  IF ~frm_cnt.ok \/ frm_cnt.val < 0 THEN DropOne(buf)
                 ELSE NC_take_sized(buf, second_at, 44 + frm_cnt.val * 8 * 6)

NC_try_extract_frame(buf) ==
    IF buf = <<>> THEN NoFrame(buf)
    ELSE
      LET at_idx   == NC_index_of(buf, AT, 0)
          crlf_idx == NC_find_crlf(buf)
      IN  IF crlf_idx >= 0 /\ (at_idx < 0 \/ crlf_idx < at_idx)
            THEN Take(buf, crlf_idx + 2)
          ELSE IF at_idx >= 0 THEN
            LET cmd == NC_get_ascii(buf, 0, at_idx)
            IN  IF cmd = TAG_A_D THEN NC_branch_A_D(buf, at_idx)
                ELSE IF cmd = TAG_A_R THEN NC_branch_A_R(buf, at_idx)
                ELSE IF crlf_idx < 0 THEN NoFrame(buf)
                ELSE Take(buf, crlf_idx + 2)
          ELSE NoFrame(buf)

\* ------------------------------------------------------------------------
\* FrameParser.try_extract
\* ------------------------------------------------------------------------

\* num_str = src[at1+1:at2].decode('ascii'); token = int(num_str)
\* [ok |-> FALSE]: the decode or the int() raised.
RC_token(src, at1, at2) ==
    LET num == Slice(src, at1 + 1, at2)
    IN  IF DecodeStrictRaises(num) THEN [ok |-> FALSE, val |-> 0] ELSE PyInt(num)

\* if cmd in ('A_D', 'A_R'): ...
RC_branch_binary(src, at1) ==
    LET at2 == IndexIn(src, AT, at1 + 1, Len(src))
    IN  IF at2 < 0 THEN NoFrame(src)
        ELSE LET token == RC_token(src, at1, at2)
             IN  IF ~token.ok \/ token.val < 0 THEN DropOne(src)
                 ELSE LET tail == Find(src, TAIL, at2)
                      IN  IF tail < 0 THEN NoFrame(src) ELSE Take(src, tail + 3)

RC_try_extract(src) ==
    IF Len(src) < 2 THEN NoFrame(src)
    ELSE
      LET crlf == Find(src, CRLF, 0)
      IN  IF crlf < 0 THEN NoFrame(src)
          ELSE
            LET at1 == IndexIn(src, AT, 0, crlf)
            IN  IF at1 < 0 THEN Take(src, crlf + 2)
                ELSE
                  LET cmd == DecodeIgnore(Slice(src, 0, at1))
                  IN  IF cmd \in {TAG_A_D, TAG_A_R} THEN RC_branch_binary(src, at1)
                      ELSE Take(src, crlf + 2)

\* ------------------------------------------------------------------------
\* The drain loops of the two read loops.  buf is the buffer after the chunk
\* was appended; off is the number of bytes of this connection consumed
\* before buf; raises is the set of ordinals (1 = first frame of this pass)
\* of the frames whose callback raises.  The result holds the buffer left,
\* the extractor calls made and the frames handed to the callback, each with
\* the stream offset it was cut from.
\* ------------------------------------------------------------------------

Call(in, r) == [in |-> in, some |-> r.some, frame |-> r.frame, out |-> r.buf]

Delivery(frame, off, raised) == [frame |-> frame, off |-> off, raised |-> raised]

\* NC_drain leaving its loop when the callback raises.
RECURSIVE NC_drain_stops(_, _, _, _)
NC_drain_stops(buf, off, raises, n) ==
    LET r == NC_try_extract_frame(buf)
    IN  IF ~r.some
        THEN [buf |-> r.buf, calls |-> <<Call(buf, r)>>, out |-> <<>>]
        ELSE IF n \in raises
        THEN [buf |-> r.buf, calls |-> <<Call(buf, r)>>,
              out |-> <<Delivery(r.frame, off, TRUE)>>]
        ELSE LET rest == NC_drain_stops(r.buf, off + Len(r.frame), raises, n + 1)
             IN  [buf   |-> rest.buf,
                  calls |-> <<Call(buf, r)>> \o rest.calls,
                  out   |-> <<Delivery(r.frame, off, FALSE)>> \o rest.out]

\* while True: frame = self._try_extract_frame(self._buf); if frame is None:
\* break; try: self.on_receive(frame) except Exception: self._log(...)
RECURSIVE NC_drain(_, _, _, _)
NC_drain(buf, off, raises, n) ==
    LET r == NC_try_extract_frame(buf)
    IN  IF ~r.some
        THEN [buf |-> r.buf, calls |-> <<Call(buf, r)>>, out |-> <<>>]
        ELSE LET rest == NC_drain(r.buf, off + Len(r.frame), raises, n + 1)
             IN  [buf   |-> rest.buf,
                  calls |-> <<Call(buf, r)>> \o rest.calls,
                  out   |-> <<Delivery(r.frame, off, n \in raises)>> \o rest.out]

\* while True: frame = parser.try_extract(ring); if frame is None: break
\* try: self._frame_cb(frame) except Exception: traceback.print_exc()
RECURSIVE RC_drain(_, _, _, _)
RC_drain(ring, off, raises, n) ==
    LET r == RC_try_extract(ring)
    IN  IF ~r.some
        THEN [buf |-> r.buf, calls |-> <<Call(ring, r)>>, out |-> <<>>]
        ELSE LET rest == RC_drain(r.buf, off + Len(r.frame), raises, n + 1)
             IN  [buf   |-> rest.buf,
                  calls |-> <<Call(ring, r)>> \o rest.calls,
                  out   |-> <<Delivery(r.frame, off, n \in raises)>> \o rest.out]

\* ------------------------------------------------------------------------
\* State
\* ------------------------------------------------------------------------

VARIABLES
    client,       \* "NC": the NetworkClient instance, "RC": the ReconnectingClient
    wire,         \* bytes the server has still to send on the current connection
    rx,           \* bytes read from the socket on the current connection
    single,       \* TRUE while those bytes came in at most one read
    delivered,    \* frames handed to on_receive / frame_cb on this connection
    calls,        \* extractor calls of the latest drain pass
    event,        \* how the runner's latest socket wait ended
    stale,        \* the receive buffer held bytes when the connection was made
    streak,       \* backoff sleeps finished since the runner started or last connected
    sends,        \* one record per _send_raw call made so far
    socket_out,   \* ordinals of the _send_raw calls whose data was written to a socket
    \* NetworkClient
    nc_want_run,  \* self._want_run
    nc_writer,    \* self.writer: "none", "open", or "closing" (is_closing())
    nc_task,      \* self._runner_task: "none" or "set"
    nc_pc,        \* where the runner task is suspended
    nc_backoff,   \* _runner's local backoff
    nc_buf,       \* self._buf
    nc_cancel,    \* a cancellation of the runner task is pending
    nc_stop_pc,   \* where a stop_client call is suspended
    nc_orphans,   \* live runner tasks that self._runner_task has lost and that
                  \* are followed no further
    \* ReconnectingClient
    rc_sock,      \* self._sock: "none", "open", or "closed" (a closed socket object)
    rc_connected, \* self._connected
    rc_stop_evt,  \* self._stop_evt
    rc_thread,    \* self._thread: "none" or "set"
    rc_pc,        \* where the runner thread is
    rc_backoff,   \* _runner's local backoff
    rc_ring,      \* _runner's local ring
    rc_caller,    \* the thread calling the public api: "idle", "joining", "sending"
    rc_tx,        \* the _send_raw call that holds _send_lock: "none" or its data
    api_call      \* the send_cmd / send_ascii / send_a_d call made, with its outcome

\* api_call before any call of the send api was made
NoCall == [call |-> [fn |-> "none", parts |-> <<>>, payload |-> <<>>],
           raised |-> FALSE, logs |-> 0, written |-> <<>>]

sessVars == <<wire, rx, single, delivered, calls, event, stale>>
sendVars == <<sends, socket_out, rc_tx, api_call>>
ncVars == <<nc_want_run, nc_writer, nc_task, nc_pc, nc_backoff, nc_buf, nc_cancel,
            nc_stop_pc>>
rcVars == <<rc_sock, rc_connected, rc_stop_evt, rc_thread, rc_pc, rc_backoff,
            rc_ring, rc_caller>>
vars == <<client, streak, sessVars, sendVars, ncVars, nc_orphans, rcVars>>

\* ------------------------------------------------------------------------
\* Bounds and inputs
\* ------------------------------------------------------------------------

\* The callbacks that may raise in one drain pass: ordinals 1..MaxRaise.
MaxRaise == 1

\* The _send_raw calls followed in one behaviour.
MaxSends == 1

\* The saturation point of the streak counter.
MaxStreak == 5

\* Longest A_D payload of the generated server streams.
MaxPayload == 2

\* Largest A_R frame count of the generated server streams.
MaxFrmCnt == 1

\* Most segments concatenated into one free-form server stream.
MaxSegs == 3

\* A read of the generated streams returns 1..MaxChunk bytes, or all that is left.
MaxChunk == 4

RaiseSets == SUBSET (1..MaxRaise)

\* The runner tasks of one NetworkClient that may be alive beside the one
\* followed.
MaxOrphans == 1

\* The sizes of the next read when left bytes are still to come.
ReadSizes(left) == {n \in 1..left : n <= MaxChunk \/ n = left}

\* ------------------------------------------------------------------------
\* NetworkClient
\* ------------------------------------------------------------------------

\* backoff = 1.0 at the start of _runner (tenths of a second)
NC_floor == 10

\* self._max_backoff = 10.0
NC_max_backoff == 100

\* is_connected(): self.writer is not None and not self.writer.is_closing()
NC_is_connected == nc_writer = "open"

\* backoff = 1.0 right after a successful _connect_once
NC_backoff_on_connect(backoff) == NC_floor

\* NC_next_backoff without the cap.
NC_next_backoff_uncapped(backoff) == backoff * 2

\* backoff = min(backoff * 2.0, self._max_backoff)
NC_next_backoff(backoff) == MinOf(backoff * 2, NC_max_backoff)

\* NC_runner_cond not looking at the flag.
NC_runner_cond_always(want_run) == TRUE

\* while self._want_run
NC_runner_cond(want_run) == want_run

\* while self.is_connected() and self._want_run
NC_receive_cond(writer, want_run) == writer = "open" /\ want_run

\* The tail of _runner: close the writer if there is one, clear it, log
\* "Runner stopped".  The task is suspended in wait_closed() if it closed one.
NC_exit(writer) ==
    IF writer # "none" THEN [writer |-> "closing", pc |-> "fin_closing"]
    ELSE [writer |-> "none", pc |-> "done"]

\* NC_after_session leaving the loop after any session.
NC_after_session_gives_up(writer, want_run) == NC_exit(writer)

\* _runner after _connect_once / _receive_loop returned or raised:
\* if not self._want_run: break; ...; await asyncio.sleep(backoff)
NC_after_session(writer, want_run) ==
    IF ~want_run THEN NC_exit(writer) ELSE [writer |-> writer, pc |-> "sleeping"]

\* NC_leave_receive_loop without the finally block.
NC_leave_receive_loop_open(writer, want_run) == NC_after_session(writer, want_run)

\* The finally block of _receive_loop, up to its await of wait_closed().
NC_leave_receive_loop(writer, want_run) ==
    IF writer # "none" THEN [writer |-> "closing", pc |-> "rl_closing"]
    ELSE NC_after_session("none", want_run)

\* After a read was handled: the while condition of _receive_loop.
NC_after_read(writer, want_run) ==
    IF NC_receive_cond(writer, want_run) THEN [writer |-> writer, pc |-> "reading"]
    ELSE NC_leave_receive_loop(writer, want_run)

\* The while condition of _runner and the start of _connect_once: an old
\* writer is closed and awaited first, otherwise open_connection is awaited.
NC_loop_top(writer, want_run) ==
    IF ~NC_runner_cond(want_run) THEN NC_exit(writer)
    ELSE IF writer # "none" THEN [writer |-> "closing", pc |-> "co_closing"]
    ELSE [writer |-> "none", pc |-> "connecting"]

NC_Runs == client = "NC" /\ ~nc_cancel

\* The runner task followed has started and has not ended.
NC_runner_live == nc_pc \notin {"none", "done"}

\* self._runner_task is None or self._runner_task.done()
NC_start_cond(task, pc) == task = "none" \/ pc = "done"

\* start_auto_reconnect(host, port).  A new task takes the place of the one
\* followed; if that one is still alive it runs on beside the new one.  A
\* stop_client call suspended in wait_for keeps waiting for the task it
\* named, which has ended.
NC_Start ==
    /\ client = "NC"
    /\ nc_want_run' = TRUE
    /\ IF NC_start_cond(nc_task, nc_pc)
       THEN /\ NC_runner_live => nc_orphans < MaxOrphans
            /\ nc_task' = "set"
            /\ nc_pc' = "start"
            /\ nc_backoff' = NC_floor
            /\ nc_cancel' = FALSE
            /\ streak' = 0
            /\ nc_orphans' = IF NC_runner_live THEN nc_orphans + 1 ELSE nc_orphans
            /\ nc_stop_pc' = IF nc_stop_pc = "join" THEN "join_old" ELSE nc_stop_pc
       ELSE UNCHANGED <<nc_task, nc_pc, nc_backoff, nc_cancel, streak, nc_orphans,
                        nc_stop_pc>>
    /\ UNCHANGED <<client, sessVars, sendVars, rcVars, nc_writer, nc_buf>>

\* The first step of the runner task: backoff = 1.0, then the loop top.
NC_RunnerStart ==
    /\ NC_Runs /\ nc_pc = "start"
    /\ LET nx == NC_loop_top(nc_writer, nc_want_run)
       IN  nc_writer' = nx.writer /\ nc_pc' = nx.pc
    /\ UNCHANGED <<client, nc_orphans, streak, sessVars, sendVars, rcVars, nc_want_run, nc_task,
                   nc_backoff, nc_buf, nc_cancel, nc_stop_pc>>

\* _connect_once: wait_closed() of the old writer returned;
\* self.reader = self.writer = None, then open_connection is awaited.
NC_OldWriterClosed ==
    /\ NC_Runs /\ nc_pc = "co_closing"
    /\ nc_writer' = "none" /\ nc_pc' = "connecting"
    /\ UNCHANGED <<client, nc_orphans, streak, sessVars, sendVars, rcVars, nc_want_run, nc_task,
                   nc_backoff, nc_buf, nc_cancel, nc_stop_pc>>

\* NC_buf_on_connect keeping the bytes of the previous session.
NC_buf_on_connect_kept(buf) == buf

\* self._buf.clear() at the start of _receive_loop
NC_buf_on_connect(buf) == <<>>

\* open_connection returned: log "Connected", backoff = 1.0, then
\* _receive_loop clears the buffer and tests its while condition.
NC_ConnectOk(w) ==
    /\ NC_Runs /\ nc_pc = "connecting"
    /\ nc_backoff' = NC_backoff_on_connect(nc_backoff)
    /\ streak' = 0
    /\ nc_buf' = NC_buf_on_connect(nc_buf)
    /\ stale' = (nc_buf # <<>>)
    /\ wire' = w /\ rx' = <<>> /\ single' = TRUE /\ delivered' = <<>> /\ calls' = <<>>
    /\ event' = "connected"
    /\ LET nx == NC_after_read("open", nc_want_run)
       IN  nc_writer' = nx.writer /\ nc_pc' = nx.pc
    /\ UNCHANGED <<client, nc_orphans, sendVars, rcVars, nc_want_run, nc_task, nc_cancel, nc_stop_pc>>

\* _connect_once raised (host/port not set, or open_connection failed).
NC_ConnectFail ==
    /\ NC_Runs /\ nc_pc = "connecting"
    /\ LET nx == NC_after_session(nc_writer, nc_want_run)
       IN  nc_writer' = nx.writer /\ nc_pc' = nx.pc
    /\ event' = "refused"
    /\ UNCHANGED <<client, nc_orphans, streak, stale, wire, rx, single, delivered, calls, sendVars,
                   rcVars, nc_want_run, nc_task, nc_backoff, nc_buf, nc_cancel,
                   nc_stop_pc>>

\* reader.read returned n bytes: extend the buffer, drain it, test the loop.
NC_ReadData(n, raises) ==
    /\ NC_Runs /\ nc_pc = "reading"
    /\ n \in 1..Len(wire)
    /\ LET chunk == SubSeq(wire, 1, n)
           d     == NC_drain(nc_buf \o chunk, Len(rx) - Len(nc_buf), raises, 1)
           nx    == NC_after_read(nc_writer, nc_want_run)
       IN  /\ wire' = SubSeq(wire, n + 1, Len(wire))
           /\ rx' = rx \o chunk
           /\ single' = (rx = <<>>)
           /\ nc_buf' = d.buf
           /\ delivered' = delivered \o d.out
           /\ calls' = d.calls
           /\ event' = "data"
           /\ stale' = stale
           /\ nc_writer' = nx.writer /\ nc_pc' = nx.pc
    /\ UNCHANGED <<client, nc_orphans, streak, sendVars, rcVars, nc_want_run, nc_task, nc_backoff,
                   nc_cancel, nc_stop_pc>>

\* reader.read returned b"": break.
NC_ReadEof ==
    /\ NC_Runs /\ nc_pc = "reading"
    /\ LET nx == NC_leave_receive_loop(nc_writer, nc_want_run)
       IN  nc_writer' = nx.writer /\ nc_pc' = nx.pc
    /\ event' = "eof"
    /\ UNCHANGED <<client, nc_orphans, streak, stale, wire, rx, single, delivered, calls, sendVars,
                   rcVars, nc_want_run, nc_task, nc_backoff, nc_buf, nc_cancel,
                   nc_stop_pc>>

\* except asyncio.TimeoutError: self._log("Receive timeout"); break
NC_on_read_timeout(writer, want_run) == NC_leave_receive_loop(writer, want_run)

\* wait_for(reader.read, timeout=self._read_timeout) timed out.
NC_ReadTimeout ==
    /\ NC_Runs /\ nc_pc = "reading"
    /\ LET nx == NC_on_read_timeout(nc_writer, nc_want_run)
       IN  nc_writer' = nx.writer /\ nc_pc' = nx.pc
    /\ event' = "timeout"
    /\ UNCHANGED <<client, nc_orphans, streak, stale, wire, rx, single, delivered, calls, sendVars,
                   rcVars, nc_want_run, nc_task, nc_backoff, nc_buf, nc_cancel,
                   nc_stop_pc>>

\* reader.read raised: the transport is lost, the finally block runs and the
\* exception reaches _runner's except clause.
NC_ReadError ==
    /\ NC_Runs /\ nc_pc = "reading"
    /\ LET nx == NC_leave_receive_loop(nc_writer, nc_want_run)
       IN  nc_writer' = nx.writer /\ nc_pc' = nx.pc
    /\ event' = "error"
    /\ UNCHANGED <<client, nc_orphans, streak, stale, wire, rx, single, delivered, calls, sendVars,
                   rcVars, nc_want_run, nc_task, nc_backoff, nc_buf, nc_cancel,
                   nc_stop_pc>>

\* _receive_loop's finally: wait_closed() returned; reader = writer = None; back
\* in _runner.
NC_SessionClosed ==
    /\ NC_Runs /\ nc_pc = "rl_closing"
    /\ LET nx == NC_after_session("none", nc_want_run)
       IN  nc_writer' = nx.writer /\ nc_pc' = nx.pc
    /\ UNCHANGED <<client, nc_orphans, streak, sessVars, sendVars, rcVars, nc_want_run, nc_task,
                   nc_backoff, nc_buf, nc_cancel, nc_stop_pc>>

\* asyncio.sleep(backoff) returned: backoff is doubled, then the loop top.
NC_SleepDone ==
    /\ NC_Runs /\ nc_pc = "sleeping"
    /\ nc_backoff' = NC_next_backoff(nc_backoff)
    /\ streak' = MinOf(streak + 1, MaxStreak)
    /\ LET nx == NC_loop_top(nc_writer, nc_want_run)
       IN  nc_writer' = nx.writer /\ nc_pc' = nx.pc
    /\ UNCHANGED <<client, nc_orphans, sessVars, sendVars, rcVars, nc_want_run, nc_task, nc_buf,
                   nc_cancel, nc_stop_pc>>

\* The tail of _runner: wait_closed() returned; reader = writer = None.
NC_ExitClosed ==
    /\ NC_Runs /\ nc_pc = "fin_closing"
    /\ nc_writer' = "none" /\ nc_pc' = "done"
    /\ UNCHANGED <<client, nc_orphans, streak, sessVars, sendVars, rcVars, nc_want_run, nc_task,
                   nc_backoff, nc_buf, nc_cancel, nc_stop_pc>>

\* CancelledError is thrown into the runner at its await.  It is caught only
\* around asyncio.sleep; elsewhere it passes _runner's "except Exception" and
\* ends the task, after _receive_loop's finally block if it is inside that
\* loop.  Raised inside a wait_closed() it skips the assignments after it.
NC_on_cancel(pc, writer) ==
    CASE pc = "sleeping" -> NC_exit(writer)
      [] pc = "reading"  -> IF writer # "none"
                            THEN [writer |-> "closing", pc |-> "rl_cancelled"]
                            ELSE [writer |-> "none", pc |-> "done"]
      [] OTHER           -> [writer |-> writer, pc |-> "done"]

NC_Cancelled ==
    /\ client = "NC" /\ nc_cancel /\ nc_pc # "done"
    /\ nc_cancel' = FALSE
    /\ LET nx == NC_on_cancel(nc_pc, nc_writer)
       IN  nc_writer' = nx.writer /\ nc_pc' = nx.pc
    /\ UNCHANGED <<client, nc_orphans, streak, sessVars, sendVars, rcVars, nc_want_run, nc_task,
                   nc_backoff, nc_buf, nc_stop_pc>>

\* _receive_loop's finally while CancelledError is in flight: wait_closed()
\* returned; reader = writer = None; the error then ends the task.
NC_CancelledClosed ==
    /\ client = "NC" /\ nc_pc = "rl_cancelled"
    /\ nc_writer' = "none" /\ nc_pc' = "done"
    /\ UNCHANGED <<client, nc_orphans, streak, sessVars, sendVars, rcVars, nc_want_run, nc_task,
                   nc_backoff, nc_buf, nc_cancel, nc_stop_pc>>

\* stop_client from "self.reader = None" on: clear the writer, then wait for
\* the runner task if there is one (no wait if it is done already).
NC_stop_rest(task, pc) ==
    IF task = "set" /\ pc # "done" THEN [task |-> "set", stop_pc |-> "join"]
    ELSE [task |-> "none", stop_pc |-> "idle"]

\* stop_client(): self._want_run = False; close the writer and await
\* wait_closed() if there is one.
NC_StopBegin ==
    /\ client = "NC" /\ nc_stop_pc = "idle"
    /\ nc_want_run' = FALSE
    /\ IF nc_writer # "none"
       THEN nc_writer' = "closing" /\ nc_stop_pc' = "wait_closed" /\ nc_task' = nc_task
       ELSE LET nx == NC_stop_rest(nc_task, nc_pc)
            IN  nc_writer' = "none" /\ nc_task' = nx.task /\ nc_stop_pc' = nx.stop_pc
    /\ UNCHANGED <<client, nc_orphans, streak, sessVars, sendVars, rcVars, nc_pc, nc_backoff,
                   nc_buf, nc_cancel>>

\* stop_client: wait_closed() returned.
NC_StopClosed ==
    /\ client = "NC" /\ nc_stop_pc = "wait_closed"
    /\ LET nx == NC_stop_rest(nc_task, nc_pc)
       IN  nc_writer' = "none" /\ nc_task' = nx.task /\ nc_stop_pc' = nx.stop_pc
    /\ UNCHANGED <<client, nc_orphans, streak, sessVars, sendVars, rcVars, nc_want_run, nc_pc,
                   nc_backoff, nc_buf, nc_cancel>>

\* stop_client: wait_for(self._runner_task, timeout=0.1) timed out, which
\* cancels the task and waits for it to end.
NC_StopJoinTimeout ==
    /\ client = "NC" /\ nc_stop_pc = "join" /\ nc_pc # "done" /\ ~nc_cancel
    /\ nc_cancel' = TRUE
    /\ UNCHANGED <<client, nc_orphans, streak, sessVars, sendVars, rcVars, nc_want_run, nc_writer,
                   nc_task, nc_pc, nc_backoff, nc_buf, nc_stop_pc>>

\* stop_client: the runner task waited for ended; self._runner_task = None,
\* whatever task it refers to by now.
NC_StopJoined ==
    /\ client = "NC"
    /\ \/ nc_stop_pc = "join" /\ nc_pc = "done"
       \/ nc_stop_pc = "join_old"
    /\ nc_task' = "none" /\ nc_stop_pc' = "idle"
    /\ UNCHANGED <<client, nc_orphans, streak, sessVars, sendVars, rcVars, nc_want_run, nc_writer,
                   nc_pc, nc_backoff, nc_buf, nc_cancel>>

\* _send_raw(data): what one call does, given whether is_connected() holds
\* and, if it does, whether write/drain raise and whether the data got out.
NC_send_raw(connected, raises, out) ==
    IF ~connected THEN [wrote |-> FALSE, logs |-> 1, raised |-> FALSE]
    ELSE IF raises THEN [wrote |-> out, logs |-> 1, raised |-> FALSE]
    ELSE [wrote |-> TRUE, logs |-> 0, raised |-> FALSE]

\* What _send_raw does to self.writer when write/drain raised: the except
\* branch only logs.
NC_writer_on_send_error_closed(writer) == "closing"

NC_writer_on_send_error(writer) == writer

\* (cmd + "\r\n").encode("ascii") and ("@".join(parts) + "\r\n").encode("ascii")
\* raise UnicodeEncodeError when the text holds a character outside ASCII.
NC_encode_raises(ascii) == ~ascii

\* send_cmd / send_ascii: encode the text, then one _send_raw call.  The
\* encoding error is caught nowhere and nothing is logged for it.
NC_send_text(ascii, connected, raises, out) ==
    IF NC_encode_raises(ascii) THEN [wrote |-> FALSE, logs |-> 0, raised |-> TRUE]
    ELSE NC_send_raw(connected, raises, out)

\* A call of send_cmd / send_ascii with a text that is ASCII or not; send_a_d,
\* whose head is always ASCII, is the call with ascii = TRUE.
NC_Send(ascii, raises, out) ==
    /\ client = "NC" /\ Len(sends) < MaxSends
    /\ (~NC_is_connected \/ ~ascii => ~raises /\ ~out)
    /\ (~raises => out = (NC_is_connected /\ ascii))
    /\ LET r == NC_send_text(ascii, NC_is_connected, raises, out)
       IN  /\ sends' = Append(sends, [ascii |-> ascii, live |-> NC_is_connected,
                                      failed |-> raises, wrote |-> r.wrote,
                                      logs |-> r.logs, raised |-> r.raised])
           /\ socket_out' = IF r.wrote THEN Append(socket_out, Len(sends) + 1)
                            ELSE socket_out
    /\ nc_writer' = IF raises THEN NC_writer_on_send_error(nc_writer) ELSE nc_writer
    /\ UNCHANGED <<client, nc_orphans, streak, sessVars, rcVars, rc_tx, api_call, nc_want_run,
                   nc_task, nc_pc, nc_backoff, nc_buf, nc_cancel, nc_stop_pc>>

\* ------------------------------------------------------------------------
\* ReconnectingClient
\* ------------------------------------------------------------------------

\* backoff = 0.5 at the start of _runner (tenths of a second)
RC_floor == 5

\* backoff = min(backoff * 2.0, 5.0)
RC_ceiling == 50

\* backoff = 0.5 right after a successful connect
RC_backoff_on_connect(backoff) == RC_floor

\* backoff = min(backoff * 2.0, 5.0)
RC_next_backoff(backoff) == MinOf(backoff * 2, RC_ceiling)

\* while not self._stop_evt.is_set()  (the reconnect loop)
RC_runner_cond(stop_evt) == ~stop_evt

\* while not self._stop_evt.is_set()  (the read loop)
RC_read_cond(stop_evt) == ~stop_evt

\* self._thread and self._thread.is_alive()
RC_thread_alive == rc_thread = "set" /\ rc_pc \notin {"none", "dead"}

\* After a read was handled inside the read loop: its while condition.
RC_after_read(stop_evt) == IF RC_read_cond(stop_evt) THEN "reading" ELSE "finally"

\* except socket.timeout: continue
RC_on_read_timeout(stop_evt) == RC_after_read(stop_evt)

\* start(host, port)
RC_Start ==
    /\ client = "RC" /\ rc_caller = "idle"
    /\ IF RC_thread_alive
       THEN UNCHANGED <<rc_stop_evt, rc_thread, rc_pc, rc_backoff, rc_ring, streak>>
       ELSE /\ rc_stop_evt' = FALSE
            /\ rc_thread' = "set"
            /\ rc_pc' = "top"
            /\ rc_backoff' = RC_floor
            /\ rc_ring' = <<>>
            /\ streak' = 0
    /\ UNCHANGED <<client, nc_orphans, sessVars, sendVars, ncVars, rc_sock, rc_connected, rc_caller>>

\* The reconnect loop's condition; if it holds, log "Connecting" and call
\* socket.create_connection.
RC_LoopTop ==
    /\ client = "RC" /\ rc_pc = "top"
    /\ rc_pc' = IF RC_runner_cond(rc_stop_evt) THEN "connecting" ELSE "dead"
    /\ UNCHANGED <<client, nc_orphans, streak, sessVars, sendVars, ncVars, rc_sock, rc_connected,
                   rc_stop_evt, rc_thread, rc_backoff, rc_ring, rc_caller>>

\* ring.clear() right after a successful connect
RC_ring_on_connect(ring) == <<>>

\* create_connection returned s: self._sock = s; self._connected = True; log
\* "Connected"; backoff = 0.5; ring.clear(); then the read loop's condition.
RC_ConnectOk(w) ==
    /\ client = "RC" /\ rc_pc = "connecting"
    /\ rc_sock' = "open"
    /\ rc_connected' = TRUE
    /\ rc_backoff' = RC_backoff_on_connect(rc_backoff)
    /\ streak' = 0
    /\ rc_ring' = RC_ring_on_connect(rc_ring)
    /\ stale' = (rc_ring # <<>>)
    /\ wire' = w /\ rx' = <<>> /\ single' = TRUE /\ delivered' = <<>> /\ calls' = <<>>
    /\ event' = "connected"
    /\ rc_pc' = RC_after_read(rc_stop_evt)
    /\ UNCHANGED <<client, nc_orphans, sendVars, ncVars, rc_stop_evt, rc_thread, rc_caller>>

\* create_connection raised: log it; the finally block follows.
RC_ConnectFail ==
    /\ client = "RC" /\ rc_pc = "connecting"
    /\ rc_pc' = "finally"
    /\ event' = "refused"
    /\ UNCHANGED <<client, nc_orphans, streak, stale, wire, rx, single, delivered, calls, sendVars,
                   ncVars, rc_sock, rc_connected, rc_stop_evt, rc_thread, rc_backoff,
                   rc_ring, rc_caller>>

\* s.recv returned n bytes: extend ring, drain it, test the read loop.
RC_ReadData(n, raises) ==
    /\ client = "RC" /\ rc_pc = "reading" /\ rc_sock = "open"
    /\ n \in 1..Len(wire)
    /\ LET chunk == SubSeq(wire, 1, n)
           d     == RC_drain(rc_ring \o chunk, Len(rx) - Len(rc_ring), raises, 1)
       IN  /\ wire' = SubSeq(wire, n + 1, Len(wire))
           /\ rx' = rx \o chunk
           /\ single' = (rx = <<>>)
           /\ rc_ring' = d.buf
           /\ delivered' = delivered \o d.out
           /\ calls' = d.calls
           /\ event' = "data"
           /\ stale' = stale
    /\ rc_pc' = RC_after_read(rc_stop_evt)
    /\ UNCHANGED <<client, nc_orphans, streak, sendVars, ncVars, rc_sock, rc_connected, rc_stop_evt,
                   rc_thread, rc_backoff, rc_caller>>

\* s.recv raised socket.timeout.
RC_ReadTimeout ==
    /\ client = "RC" /\ rc_pc = "reading"
    /\ rc_pc' = RC_on_read_timeout(rc_stop_evt)
    /\ event' = "timeout"
    /\ UNCHANGED <<client, nc_orphans, streak, stale, wire, rx, single, delivered, calls, sendVars,
                   ncVars, rc_sock, rc_connected, rc_stop_evt, rc_thread, rc_backoff,
                   rc_ring, rc_caller>>

\* s.recv returned b"": log "remote closed"; break.
RC_ReadEof ==
    /\ client = "RC" /\ rc_pc = "reading" /\ rc_sock = "open"
    /\ rc_pc' = "finally"
    /\ event' = "eof"
    /\ UNCHANGED <<client, nc_orphans, streak, stale, wire, rx, single, delivered, calls, sendVars,
                   ncVars, rc_sock, rc_connected, rc_stop_evt, rc_thread, rc_backoff,
                   rc_ring, rc_caller>>

\* s.recv raised another error (reset, or the socket was closed by stop()).
RC_ReadError ==
    /\ client = "RC" /\ rc_pc = "reading"
    /\ rc_pc' = "finally"
    /\ event' = "error"
    /\ UNCHANGED <<client, nc_orphans, streak, stale, wire, rx, single, delivered, calls, sendVars,
                   ncVars, rc_sock, rc_connected, rc_stop_evt, rc_thread, rc_backoff,
                   rc_ring, rc_caller>>

\* finally: self._connected = False
RC_FinallyFlag ==
    /\ client = "RC" /\ rc_pc = "finally"
    /\ rc_connected' = FALSE
    /\ rc_pc' = "fin_close"
    /\ UNCHANGED <<client, nc_orphans, streak, sessVars, sendVars, ncVars, rc_sock, rc_stop_evt,
                   rc_thread, rc_backoff, rc_ring, rc_caller>>

\* finally: close self._sock if set; self._sock = None; then
\* "if self._stop_evt.is_set(): break", else time.sleep(backoff).
RC_FinallyClose ==
    /\ client = "RC" /\ rc_pc = "fin_close"
    /\ rc_sock' = "none"
    /\ rc_pc' = IF rc_stop_evt THEN "dead" ELSE "sleeping"
    /\ UNCHANGED <<client, nc_orphans, streak, sessVars, sendVars, ncVars, rc_connected, rc_stop_evt,
                   rc_thread, rc_backoff, rc_ring, rc_caller>>

\* time.sleep(backoff) returned: backoff is doubled; back to the loop top.
RC_SleepDone ==
    /\ client = "RC" /\ rc_pc = "sleeping"
    /\ rc_backoff' = RC_next_backoff(rc_backoff)
    /\ streak' = MinOf(streak + 1, MaxStreak)
    /\ rc_pc' = "top"
    /\ UNCHANGED <<client, nc_orphans, sessVars, sendVars, ncVars, rc_sock, rc_connected, rc_stop_evt,
                   rc_thread, rc_ring, rc_caller>>

\* self._thread.join(timeout=2.0) (tenths of a second)
RC_join_timeout == 20

\* stop(): self._stop_evt.set(); close self._sock if set; then join the
\* thread for up to 2 seconds.
RC_Stop ==
    /\ client = "RC" /\ rc_caller = "idle"
    /\ rc_stop_evt' = TRUE
    /\ rc_sock' = IF rc_sock # "none" THEN "closed" ELSE "none"
    /\ rc_caller' = IF RC_thread_alive THEN "joining" ELSE "idle"
    /\ UNCHANGED <<client, nc_orphans, streak, sessVars, sendVars, ncVars, rc_connected, rc_thread,
                   rc_pc, rc_backoff, rc_ring>>

\* join(timeout=2.0) returned: the thread ended, or the 2 seconds passed.
RC_StopJoinReturn ==
    /\ client = "RC" /\ rc_caller = "joining"
    /\ rc_caller' = "idle"
    /\ UNCHANGED <<client, nc_orphans, streak, sessVars, sendVars, ncVars, rc_sock, rc_connected,
                   rc_stop_evt, rc_thread, rc_pc, rc_backoff, rc_ring>>

\* _send_raw(data) under self._send_lock: RuntimeError if self._sock is not
\* set, else sendall, which raises on a closed socket and may raise on an
\* open one; every exception is caught and logged once.
RC_send_raw(sock, raises, out) ==
    IF sock # "open" THEN [wrote |-> FALSE, logs |-> 1, raised |-> FALSE]
    ELSE IF raises THEN [wrote |-> out, logs |-> 1, raised |-> FALSE]
    ELSE [wrote |-> TRUE, logs |-> 0, raised |-> FALSE]

\* cmd.encode('ascii', errors='ignore'): characters outside ASCII are left
\* out, nothing is raised.
RC_encode_raises(ascii) == FALSE

\* send_cmd / send_ascii: encode the text, then one _send_raw call.
RC_send_text(ascii, sock, raises, out) ==
    IF RC_encode_raises(ascii) THEN [wrote |-> FALSE, logs |-> 0, raised |-> TRUE]
    ELSE RC_send_raw(sock, raises, out)

\* The record of a finished _send_raw call.
RC_sent(ascii, sock, raises, r) ==
    [ascii |-> ascii, live |-> sock = "open", failed |-> raises,
     wrote |-> r.wrote, logs |-> r.logs, raised |-> r.raised]

\* A call of send_cmd / send_ascii with a text that is ASCII or not, up to
\* the test of self._sock inside "with self._send_lock": without a socket
\* RuntimeError is raised, caught and logged, and the call is over; with one
\* the call goes on to sendall, holding the lock.
RC_SendEnter(ascii) ==
    /\ client = "RC" /\ rc_caller = "idle" /\ Len(sends) < MaxSends
    /\ IF rc_sock = "none"
       THEN /\ sends' = Append(sends, RC_sent(ascii, rc_sock, FALSE,
                                  RC_send_text(ascii, rc_sock, FALSE, FALSE)))
            /\ UNCHANGED <<rc_caller, rc_tx>>
       ELSE /\ rc_caller' = "sending"
            /\ rc_tx' = [ascii |-> ascii]
            /\ UNCHANGED sends
    /\ UNCHANGED <<client, nc_orphans, streak, sessVars, socket_out, api_call, ncVars, rc_sock,
                   rc_connected, rc_stop_evt, rc_thread, rc_pc, rc_backoff, rc_ring>>

\* self._sock.sendall(data) of the call that holds the lock, on the socket
\* self._sock names by now; an exception is only logged, the lock is
\* released.
RC_SendWrite(raises, out) ==
    /\ client = "RC" /\ rc_caller = "sending"
    /\ (rc_sock # "open" => ~raises /\ ~out)
    /\ (~raises => out = (rc_sock = "open"))
    /\ LET r == RC_send_text(rc_tx.ascii, rc_sock, raises, out)
       IN  /\ sends' = Append(sends, RC_sent(rc_tx.ascii, rc_sock, raises, r))
           /\ socket_out' = IF r.wrote THEN Append(socket_out, Len(sends) + 1)
                            ELSE socket_out
    /\ rc_caller' = "idle"
    /\ rc_tx' = "none"
    /\ UNCHANGED <<client, nc_orphans, streak, sessVars, api_call, ncVars, rc_sock, rc_connected,
                   rc_stop_evt, rc_thread, rc_pc, rc_backoff, rc_ring>>

\* ------------------------------------------------------------------------
\* Server streams
\* ------------------------------------------------------------------------

SeqsUpTo(S, n) == UNION {[1..k -> S] : k \in 0..n}

RECURSIVE Concat(_)
Concat(ss) == IF ss = <<>> THEN <<>> ELSE Head(ss) \o Concat(Tail(ss))

\* n bytes repeating the pattern pat.
Fill(pat, n) == [i \in 1..n |-> pat[((i - 1) % Len(pat)) + 1]]

\* str(n) for n >= 0, as bytes.
RECURSIVE Decimal(_)
Decimal(n) ==
    IF n < 10 THEN <<Ord.d0 + n>> ELSE Decimal(n \div 10) \o <<Ord.d0 + (n % 10)>>

\* tag "@" count "@" payload "@\r\n"
Binary(tag, count, payload) == tag \o <<AT>> \o count \o <<AT>> \o payload \o TAIL

\* "P_S\r\n", "R_S@1\r\n", "A_M@1@\r\n", "_D@1@\r\n": text lines of the protocol.
TextLines ==
    { <<Ord.P, Ord.us, Ord.S>> \o CRLF,
      <<Ord.R, Ord.us, Ord.S, AT, Ord.d0 + 1>> \o CRLF,
      <<Ord.A, Ord.us, Ord.M, AT, Ord.d0 + 1, AT>> \o CRLF,
      <<Ord.us, Ord.D, AT, Ord.d0 + 1, AT>> \o CRLF }

\* Payload bytes: an ordinary byte and the three bytes of the terminator.
PayloadBytes == {Ord.x, AT, CR, LF}

\* Well-formed A_D frames: the count is the payload length.
ADFrames == {Binary(TAG_A_D, Decimal(Len(p)), p) : p \in SeqsUpTo(PayloadBytes, MaxPayload)}

\* A_D frames whose count may differ from the payload length.
ADWires ==
    {Binary(TAG_A_D, Decimal(k), p) :
        k \in 0..MaxPayload, p \in SeqsUpTo(PayloadBytes, MaxPayload)}

\* Patterns the A_R payloads are filled with.
FillPatterns == { <<Ord.x>>, TAIL }

\* Well-formed A_R frames with no frames in them: 44 payload bytes.
ARFrames == {Binary(TAG_A_R, Decimal(0), Fill(pat, 44)) : pat \in FillPatterns}

\* A_R frames whose payload is one byte short or long.
ARWires ==
    {Binary(TAG_A_R, Decimal(k), Fill(pat, 44 + 48 * k + d)) :
        k \in 0..MaxFrmCnt, pat \in FillPatterns, d \in {-1, 0, 1}}

WellFormed == TextLines \cup ADFrames \cup ARFrames

\* One byte in front of a well-formed frame.
CorruptBytes == {Ord.x, Ord.A, AT, CR, LF, Ord.hi}
CorruptWires == {<<b>> \o f : b \in CorruptBytes, f \in WellFormed}

\* Free-form streams: up to MaxSegs segments out of
\* "A_D@1@", "A_R@x@", "x@\r\n", "P\r\n".
Segments ==
    { TAG_A_D \o <<AT, Ord.d0 + 1, AT>>,
      TAG_A_R \o <<AT, Ord.x, AT>>,
      <<Ord.x>> \o TAIL,
      <<Ord.P>> \o CRLF }
SegWires == {Concat(ss) : ss \in SeqsUpTo(Segments, MaxSegs)}

\* A frame followed by a text line.
Followed(ws) == ws \cup {w \o <<Ord.P>> \o CRLF : w \in ws}

FrameWires == SegWires \cup Followed(ADWires) \cup ARWires \cup CorruptWires

\* Streams of the connections of the lifecycle specification:
\* "P\r\nS\r\n" and "A_D@x@\r\n".
ConnWires ==
    { <<Ord.P>> \o CRLF \o <<Ord.S>> \o CRLF,
      TAG_A_D \o <<AT, Ord.x, AT>> \o CRLF }

\* ------------------------------------------------------------------------
\* Encoders: the calls of the send api and the bytes they hand to _send_raw
\* ------------------------------------------------------------------------

\* Longest command name and longest argument list of the calls tried.
MaxName == 2
MaxArgs == 2

\* The calls: send_cmd(name), send_ascii(name, a1, ..., an) and, for
\* NetworkClient, send_a_d(payload).  The texts are made of an ordinary
\* character, '@', CR, LF and one character outside ASCII; an argument is
\* empty or one character.  The payloads are every byte sequence up to
\* MaxPayload over an ordinary byte, the terminator's bytes, 0 and 255, and
\* two of 10 and 11 bytes.
ApiCalls(c) ==
    LET chars    == {Ord.P, AT, CR, LF, Ord.hi}
        payloads == SeqsUpTo(PayloadBytes \cup {0, Ord.hi}, MaxPayload)
                        \cup {Fill(TAIL, 10), Fill(<<Ord.x>>, 11)}
    IN  {[fn |-> "send_cmd", parts |-> <<n>>, payload |-> <<>>] :
            n \in SeqsUpTo(chars, MaxName)}
        \cup {[fn |-> "send_ascii", parts |-> <<n>> \o as, payload |-> <<>>] :
            n \in SeqsUpTo(chars, MaxName),
            as \in SeqsUpTo(SeqsUpTo(chars, 1), MaxArgs)}
        \cup (IF c = "NC"
              THEN {[fn |-> "send_a_d", parts |-> <<>>, payload |-> p] : p \in payloads}
              ELSE {})

Join_unseparated(parts, sep) == Concat(parts)

\* sep.join(parts)
RECURSIVE Join(_, _)
Join(parts, sep) ==
    IF Len(parts) <= 1 THEN Concat(parts)
    ELSE Head(parts) \o sep \o Join(Tail(parts), sep)

NC_a_d_head_values(payload) ==
    TAG_A_D \o <<AT>> \o Decimal(Len(payload) \div 8) \o <<AT>>

\* f"A_D@{len(payload)}@"
NC_a_d_head(payload) == TAG_A_D \o <<AT>> \o Decimal(Len(payload)) \o <<AT>>

\* NetworkClient: the argument of _send_raw, and whether its text is ASCII.
\*   send_cmd:   (cmd + "\r\n").encode("ascii")
\*   send_ascii: ("@".join(parts) + "\r\n").encode("ascii")
\*   send_a_d:   f"A_D@{len(payload)}@".encode("ascii") + payload + b"@\r\n"
NC_encode(call) ==
    LET text == CASE call.fn = "send_cmd"   -> call.parts[1] \o CRLF
                  [] call.fn = "send_ascii" -> Join(call.parts, <<AT>>) \o CRLF
                  [] call.fn = "send_a_d"   -> NC_a_d_head(call.payload)
        data == IF call.fn = "send_a_d" THEN text \o call.payload \o TAIL ELSE text
    IN  [ascii |-> \A i \in 1..Len(text) : text[i] < 128, data |-> data]

\* ReconnectingClient: the argument of _send_raw.
\*   send_cmd:   '@' is appended unless cmd ends with it, then "\r\n" unless
\*               cmd ends with it; encode('ascii', errors='ignore')
\*   send_ascii: cmd, then '@' and a for each argument a, then '@\r\n';
\*               encode('ascii', errors='ignore')
RC_encode(call) ==
    LET endswith(t, suf) ==
            Len(t) >= Len(suf) /\ SubSeq(t, Len(t) - Len(suf) + 1, Len(t)) = suf
        cmd  == call.parts[1]
        cmd1 == IF endswith(cmd, <<AT>>) THEN cmd ELSE cmd \o <<AT>>
        cmd2 == IF endswith(cmd1, CRLF) THEN cmd1 ELSE cmd1 \o CRLF
        args == Tail(call.parts)
        text == IF call.fn = "send_cmd" THEN cmd2
                ELSE cmd \o Concat([i \in 1..Len(args) |-> <<AT>> \o args[i]]) \o TAIL
    IN  [ascii |-> \A i \in 1..Len(text) : text[i] < 128,
         data |-> SelectSeq(text, LAMBDA ch : ch < 128)]

\* A call of NetworkClient's send api while connected, the write succeeding.
NC_ApiCall(call) ==
    /\ client = "NC" /\ api_call = NoCall /\ NC_is_connected
    /\ LET e == NC_encode(call)
           r == NC_send_text(e.ascii, NC_is_connected, FALSE, e.ascii)
       IN  api_call' = [call |-> call, raised |-> r.raised, logs |-> r.logs,
                        written |-> IF r.wrote THEN e.data ELSE <<>>]
    /\ UNCHANGED <<client, nc_orphans, streak, sessVars, sends, socket_out, rc_tx, ncVars, rcVars>>

\* A call of ReconnectingClient's send api while connected, the write
\* succeeding.
RC_ApiCall(call) ==
    /\ client = "RC" /\ api_call = NoCall /\ rc_caller = "idle" /\ rc_sock = "open"
    /\ LET e == RC_encode(call)
           r == RC_send_text(e.ascii, rc_sock, FALSE, TRUE)
       IN  api_call' = [call |-> call, raised |-> r.raised, logs |-> r.logs,
                        written |-> IF r.wrote THEN e.data ELSE <<>>]
    /\ UNCHANGED <<client, nc_orphans, streak, sessVars, sends, socket_out, rc_tx, ncVars, rcVars>>

\* ------------------------------------------------------------------------
\* Frame handlers of the two applications: the A_D branch
\* ------------------------------------------------------------------------

\* Most 8-byte values in the payloads of the handler specification.
MaxDoubles == 2

\* ClientApp._on_receive(frame), for frames whose tag is not A_R.
\*   kind:   "values" the A_D summary line was logged; "error" an exception
\*           was caught and logged as [RX ERR]; "header" / "len" / "tail" the
\*           A_D header could not be used; "other" not an A_D frame
\*   warned: the "not multiple of 8" warning was logged
\*   values: the number of values logged
\*   raised: an exception left the handler (never: it catches them all)
\* struct.unpack_from("<d", payload, i) for i in range(0, len(payload), 8)
\* raises struct.error when fewer than 8 bytes are left at i.
NC_on_receive(frame) ==
    LET first_at   == Find(frame, <<AT>>, 0)
        cmd        == DecodeReplace(Slice(frame, 0, first_at))
        second_at  == Find(frame, <<AT>>, first_at + 1)
        data_len   == PyInt(DecodeReplace(Slice(frame, first_at + 1, second_at)))
        data_start == second_at + 1
        tail       == data_start + data_len.val
        payload    == Slice(frame, data_start, tail)
        starts     == {i \in 0..(Len(payload) - 1) : i % 8 = 0}
        short      == \E i \in starts : Len(payload) - i < 8
        out(k, w, n) == [kind |-> k, warned |-> w, values |-> n, raised |-> FALSE]
    IN  IF first_at < 0 \/ cmd # TAG_A_D THEN out("other", FALSE, 0)
        ELSE IF second_at < 0 THEN out("header", FALSE, 0)
        ELSE IF ~data_len.ok THEN out("len", FALSE, 0)
        ELSE IF ~(Len(frame) >= tail + 3 /\ Slice(frame, tail, tail + 3) = TAIL)
             THEN out("tail", FALSE, 0)
        ELSE IF short THEN out("error", data_len.val % 8 # 0, 0)
        ELSE out("values", data_len.val % 8 # 0, Cardinality(starts))

\* App._on_frame(frame), for frames whose tag is not A_R: the same record.
\* tail = frame.rfind(b'@\r\n'); payload = frame[second_at + 1:tail];
\* struct.unpack('<' + 'd' * (len(payload)//8), payload) raises struct.error
\* unless len(payload) is a multiple of 8; nothing in the handler catches
\* it, and there is no warning.
RC_on_frame(frame) ==
    LET first_at  == Find(frame, <<AT>>, 0)
        cmd       == DecodeIgnore(Slice(frame, 0, first_at))
        second_at == Find(frame, <<AT>>, first_at + 1)
        cnt       == PyInt(DecodeIgnore(Slice(frame, first_at + 1, second_at)))
        tails     == {i \in 0..(Len(frame) - 3) : SubSeq(frame, i + 1, i + 3) = TAIL}
        tail      == IF tails = {} THEN Len(frame) - 1
                     ELSE CHOOSE i \in tails : \A j \in tails : j <= i
        payload   == Slice(frame, second_at + 1, tail)
        out(k, n, r) == [kind |-> k, warned |-> FALSE, values |-> n, raised |-> r]
    IN  IF first_at <= 0 \/ cmd # TAG_A_D THEN out("other", 0, FALSE)
        ELSE IF second_at < 0 THEN out("header", 0, FALSE)
        ELSE IF ~cnt.ok THEN out("len", 0, FALSE)
        ELSE IF Len(payload) % 8 # 0 THEN out("error", 0, TRUE)
        ELSE out("values", Len(payload) \div 8, FALSE)

\* ------------------------------------------------------------------------
\* Specifications
\* ------------------------------------------------------------------------

\* NetworkClient.__init__
NC_Init ==
    /\ nc_want_run = FALSE /\ nc_writer = "none" /\ nc_task = "none" /\ nc_pc = "none"
    /\ nc_backoff = NC_floor /\ nc_buf = <<>> /\ nc_cancel = FALSE /\ nc_stop_pc = "idle"
    /\ nc_orphans = 0

\* ReconnectingClient.__init__
RC_Init ==
    /\ rc_sock = "none" /\ rc_connected = FALSE /\ rc_stop_evt = FALSE
    /\ rc_thread = "none" /\ rc_pc = "none" /\ rc_backoff = RC_floor /\ rc_ring = <<>>
    /\ rc_caller = "idle"

\* NetworkClient right after a connection was made and _receive_loop entered.
NC_Connected ==
    /\ nc_want_run = TRUE /\ nc_writer = "open" /\ nc_task = "set" /\ nc_pc = "reading"
    /\ nc_backoff = NC_floor /\ nc_buf = <<>> /\ nc_cancel = FALSE /\ nc_stop_pc = "idle"
    /\ nc_orphans = 0

\* ReconnectingClient right after a connection was made and the read loop entered.
RC_Connected ==
    /\ rc_sock = "open" /\ rc_connected = TRUE /\ rc_stop_evt = FALSE
    /\ rc_thread = "set" /\ rc_pc = "reading" /\ rc_backoff = RC_floor /\ rc_ring = <<>>
    /\ rc_caller = "idle"

NoSession ==
    /\ wire = <<>> /\ rx = <<>> /\ single = TRUE /\ delivered = <<>> /\ calls = <<>>
    /\ event = "none" /\ stale = FALSE
    /\ streak = 0 /\ sends = <<>> /\ socket_out = <<>> /\ rc_tx = "none"
    /\ api_call = NoCall

\* One connection of either client, the server sending a stream of FrameWires
\* cut into reads in every possible way.
InitFrame ==
    /\ client \in {"NC", "RC"}
    /\ wire \in FrameWires
    /\ rx = <<>> /\ single = TRUE /\ delivered = <<>> /\ calls = <<>>
    /\ event = "connected" /\ stale = FALSE
    /\ streak = 0 /\ sends = <<>> /\ socket_out = <<>> /\ rc_tx = "none"
    /\ api_call = NoCall
    /\ IF client = "NC" THEN NC_Connected /\ RC_Init ELSE NC_Init /\ RC_Connected

\* The callbacks of this specification do not raise.
NextFrame ==
    \/ \E n \in ReadSizes(Len(wire)) : NC_ReadData(n, {})
    \/ \E n \in ReadSizes(Len(wire)) : RC_ReadData(n, {})

SpecFrame == InitFrame /\ [][NextFrame]_vars

\* One connection of either client, the server sending one well-formed A_D
\* frame with a payload of 0 .. 8 * MaxDoubles + 1 bytes, cut into reads in
\* every possible way; the callbacks are the applications' frame handlers.
InitHandle ==
    /\ client \in {"NC", "RC"}
    /\ wire \in {Binary(TAG_A_D, Decimal(n), Fill(pat, n)) :
                    n \in 0..(8 * MaxDoubles + 1), pat \in FillPatterns}
    /\ rx = <<>> /\ single = TRUE /\ delivered = <<>> /\ calls = <<>>
    /\ event = "connected" /\ stale = FALSE
    /\ streak = 0 /\ sends = <<>> /\ socket_out = <<>> /\ rc_tx = "none"
    /\ api_call = NoCall
    /\ IF client = "NC" THEN NC_Connected /\ RC_Init ELSE NC_Init /\ RC_Connected

\* The k-th callback of a drain pass raises when the handler lets an
\* exception out on the k-th frame of the pass.
NextHandle ==
    \/ \E n \in ReadSizes(Len(wire)) :
           LET d == NC_drain(nc_buf \o SubSeq(wire, 1, n), 0, {}, 1)
           IN  NC_ReadData(n, {k \in 1..Len(d.out) : NC_on_receive(d.out[k].frame).raised})
    \/ \E n \in ReadSizes(Len(wire)) :
           LET d == RC_drain(rc_ring \o SubSeq(wire, 1, n), 0, {}, 1)
           IN  RC_ReadData(n, {k \in 1..Len(d.out) : RC_on_frame(d.out[k].frame).raised})

SpecHandle == InitHandle /\ [][NextHandle]_vars

\* One call of the send api on a connected client whose server is silent.
InitEnc ==
    /\ client \in {"NC", "RC"}
    /\ NoSession
    /\ IF client = "NC" THEN NC_Connected /\ RC_Init ELSE NC_Init /\ RC_Connected

NextEnc ==
    \/ client = "NC" /\ api_call = NoCall /\ \E call \in ApiCalls("NC") : NC_ApiCall(call)
    \/ client = "RC" /\ api_call = NoCall /\ \E call \in ApiCalls("RC") : RC_ApiCall(call)

SpecEnc == InitEnc /\ [][NextEnc]_vars

\* The whole life of either client, from construction.
Init ==
    /\ client \in {"NC", "RC"}
    /\ NoSession
    /\ NC_Init /\ RC_Init

\* The steps of NetworkClient's runner task that need no input: they happen
\* once the event loop resumes the coroutine.
NC_Internal ==
    \/ NC_RunnerStart
    \/ NC_OldWriterClosed
    \/ NC_SessionClosed
    \/ NC_SleepDone
    \/ NC_ExitClosed
    \/ NC_Cancelled
    \/ NC_CancelledClosed

\* The ends of NetworkClient's socket waits, data reads excepted.
NC_Socket ==
    \/ NC_ConnectFail
    \/ NC_ReadEof
    \/ NC_ReadTimeout
    \/ NC_ReadError

\* The steps of ReconnectingClient's runner thread that need no input.
RC_Internal ==
    \/ RC_LoopTop
    \/ RC_FinallyFlag
    \/ RC_FinallyClose
    \/ RC_SleepDone

\* The ends of ReconnectingClient's socket waits, data reads excepted.
RC_Socket ==
    \/ RC_ConnectFail
    \/ RC_ReadTimeout
    \/ RC_ReadEof
    \/ RC_ReadError

\* The steps of a stop_client / stop call after its first: the waits of the
\* caller end.
StopSteps ==
    \/ NC_StopClosed
    \/ NC_StopJoinTimeout
    \/ NC_StopJoined
    \/ RC_StopJoinReturn

\* Calls of the public start / stop api.
Calls ==
    \/ NC_Start
    \/ NC_StopBegin
    \/ RC_Start
    \/ RC_Stop

\* Connections to a server that sends the streams of ConnWires.
Next ==
    \/ Calls
    \/ StopSteps
    \/ NC_Internal
    \/ NC_Socket
    \/ RC_Internal
    \/ RC_Socket
    \/ \E w \in ConnWires : NC_ConnectOk(w)
    \/ \E w \in ConnWires : RC_ConnectOk(w)
    \/ \E n \in ReadSizes(Len(wire)), raises \in RaiseSets : NC_ReadData(n, raises)
    \/ \E n \in ReadSizes(Len(wire)), raises \in RaiseSets : RC_ReadData(n, raises)

Spec == Init /\ [][Next]_vars

\* Streams of the connections of the send specification: nothing, or the
\* start of a line, "P_".
SendWires == {<<>>, <<Ord.P, Ord.us>>}

\* Connections to a server that sends little, with calls of the send api.
NextSend ==
    \/ Calls
    \/ StopSteps
    \/ NC_Internal
    \/ NC_Socket
    \/ RC_Internal
    \/ RC_Socket
    \/ \E w \in SendWires : NC_ConnectOk(w)
    \/ \E w \in SendWires : RC_ConnectOk(w)
    \/ \E n \in ReadSizes(Len(wire)) : NC_ReadData(n, {})
    \/ \E n \in ReadSizes(Len(wire)) : RC_ReadData(n, {})
    \/ \E ascii \in BOOLEAN, raises \in BOOLEAN, out \in BOOLEAN :
           NC_Send(ascii, raises, out)
    \/ \E ascii \in BOOLEAN : RC_SendEnter(ascii)
    \/ \E raises \in BOOLEAN, out \in BOOLEAN : RC_SendWrite(raises, out)

SpecSend == Init /\ [][NextSend]_vars

\* Connections to a server that sends nothing.
NextLife ==
    \/ Calls
    \/ StopSteps
    \/ NC_Internal
    \/ NC_Socket
    \/ RC_Internal
    \/ RC_Socket
    \/ NC_ConnectOk(<<>>)
    \/ RC_ConnectOk(<<>>)

\* The event loop resumes every coroutine that can run, the threads of the
\* process are scheduled, and every socket wait and every sleep ends:
\* connecting succeeds or fails, a read returns, times out or fails.
Fairness ==
    /\ WF_vars(NC_Internal)
    /\ WF_vars(NC_Socket \/ NC_ConnectOk(<<>>))
    /\ WF_vars(RC_Internal)
    /\ WF_vars(RC_Socket \/ RC_ConnectOk(<<>>))
    /\ WF_vars(StopSteps)

SpecLife == Init /\ [][NextLife]_vars /\ Fairness

\* ------------------------------------------------------------------------
\* Claims about the frame extractors (SpecFrame)
\* ------------------------------------------------------------------------

\* The receive buffer of the client this behaviour follows.
Buf == IF client = "NC" THEN nc_buf ELSE rc_ring

\* The frames of a sequence of deliveries.
Frames(ds) == [i \in 1..Len(ds) |-> ds[i].frame]

\* The drain pass over bs arriving as one chunk on a fresh connection.
WholeFeed(bs) == IF client = "NC" THEN NC_drain(bs, 0, {}, 1) ELSE RC_drain(bs, 0, {}, 1)

\* The calls of the latest drain pass that dropped one byte.
DropCalls == {i \in 1..Len(calls) : ~calls[i].some /\ Len(calls[i].out) = Len(calls[i].in) - 1}

\* C1: however the bytes received so far were cut into reads, the frames
\* delivered are those that the same bytes deliver when they arrive as one
\* chunk.
C1_ChunkIndependence ==
    rx # <<>> => Frames(delivered) = Frames(WholeFeed(rx).out)

\* buf starts with tag "@" digits "@".
HasHeader(buf, tag) ==
    /\ Slice(buf, 0, 4) = tag \o <<AT>>
    /\ IndexIn(buf, AT, 4, Len(buf)) >= 5
    /\ \A i \in 4..(IndexIn(buf, AT, 4, Len(buf)) - 1) : IsDigit(buf[i + 1])

\* The digits of the header of buf and their value.
HeaderDigits(buf) == Slice(buf, 4, IndexIn(buf, AT, 4, Len(buf)))
HeaderCount(buf) == DigitsValue(HeaderDigits(buf), 0)

\* The call c returned the frame made of the header of c.in, n payload bytes
\* and "@\r\n", and nothing else.
SizedFrame(c, n) ==
    LET total == 3 + 1 + Len(HeaderDigits(c.in)) + 1 + n + 3
    IN  /\ Len(c.in) >= total
        /\ c.frame = Slice(c.in, 0, total)
        /\ Slice(c.in, total - 3, total) = TAIL
        /\ c.out = Slice(c.in, total, Len(c.in))

\* C2: an extractor call on a buffer that starts with A_D@<len>@ returns a
\* frame only if it is the header, exactly len payload bytes and "@\r\n".
C2_ADLengthFramed ==
    \A i \in 1..Len(calls) :
        (HasHeader(calls[i].in, TAG_A_D) /\ calls[i].some)
            => SizedFrame(calls[i], HeaderCount(calls[i].in))

\* C3: an extractor call on a buffer that starts with A_R@<k>@ returns a
\* frame only if it is the header, exactly 44 + 48 * k payload bytes and
\* "@\r\n".
C3_ARComputedSize ==
    \A i \in 1..Len(calls) :
        (HasHeader(calls[i].in, TAG_A_R) /\ calls[i].some)
            => SizedFrame(calls[i], 44 + 48 * HeaderCount(calls[i].in))

\* The bytes received are one byte followed by a well-formed frame, and they
\* came in one read that the drain loop has handled.
CorruptedFrameRead ==
    /\ rx # <<>> /\ single /\ wire = <<>>
    /\ Head(rx) \in CorruptBytes /\ Tail(rx) \in WellFormed

LeadingTag(bs) ==
    IF IndexIn(bs, AT, 0, Len(bs)) < 0 THEN bs
    ELSE Slice(bs, 0, IndexIn(bs, AT, 0, Len(bs)))

\* bs has one CR LF only, at its end, and its leading tag, read without its
\* non-ASCII bytes, is neither A_D nor A_R.
PlainLine(bs) ==
    /\ Find(bs, CRLF, 0) = Len(bs) - 2
    /\ DecodeIgnore(LeadingTag(bs)) \notin {TAG_A_D, TAG_A_R}

C5_FifoDelivery ==
    /\ \A i \in 1..Len(delivered) :
          /\ delivered[i].frame # <<>>
          /\ delivered[i].frame =
                 Slice(rx, delivered[i].off, delivered[i].off + Len(delivered[i].frame))
    /\ \A i \in 1..(Len(delivered) - 1) :
          delivered[i].off + Len(delivered[i].frame) <= delivered[i + 1].off
    /\ calls # <<>> => ~calls[Len(calls)].some

\* One drain pass delivered two frames and the callback raised on the first.
C5_Witness ==
    /\ Len(calls) = 3 /\ Len(delivered) = 2
    /\ delivered[1].raised /\ ~delivered[2].raised

\* The runner sleeps in its backoff delay.
Sleeping == IF client = "NC" THEN nc_pc = "sleeping" ELSE rc_pc = "sleeping"

\* The runner's backoff value.
Backoff == IF client = "NC" THEN nc_backoff ELSE rc_backoff

\* The delays of the claim, in tenths of a second: 1.0, 2.0, 4.0, 8.0, 10.0,
\* 10.0, ... for NetworkClient and 0.5, 1.0, 2.0, 4.0, 5.0, 5.0, ... for
\* ReconnectingClient.
Schedule ==
    IF client = "NC" THEN <<10, 20, 40, 80, 100>> ELSE <<5, 10, 20, 40, 50>>

\* C6: the delay slept after n sleeps since the runner started or last
\* connected is the (n+1)-th of floor, 2 floor, 4 floor, ..., ceiling,
\* ceiling, ...: the first delay after a connect is floor again, and the
\* backoff value is always in [floor, ceiling].
C6_BackoffSchedule ==
    /\ Sleeping => Backoff = Schedule[MinOf(streak + 1, Len(Schedule))]
    /\ Backoff >= Schedule[1] /\ Backoff <= Schedule[Len(Schedule)]

\* The runner connected, lost the connection and, after four more failed
\* attempts, sleeps the ceiling.
C6_Witness ==
    /\ Sleeping /\ streak = 4 /\ Backoff = Schedule[5]
    /\ rx # <<>>

\* ------------------------------------------------------------------------
\* Claims about stopping and reconnecting (SpecLife)
\* ------------------------------------------------------------------------

\* A stop is requested: _want_run is cleared / _stop_evt is set.
StopRequested == IF client = "NC" THEN ~nc_want_run ELSE rc_stop_evt

\* The runner is inside a connect attempt (_connect_once / create_connection).
Attempting ==
    IF client = "NC" THEN nc_pc \in {"co_closing", "connecting"}
    ELSE rc_pc = "connecting"

\* The runner has left its loops (or was never started).
Exited == IF client = "NC" THEN nc_pc \in {"none", "done"} ELSE rc_pc \in {"none", "dead"}

\* is_connected()
IsConnected == IF client = "NC" THEN NC_is_connected ELSE rc_connected

\* The client holds an open socket.
SocketOpen == IF client = "NC" THEN nc_writer = "open" ELSE rc_sock = "open"

Stopping ==
    IF client = "NC" THEN ~nc_want_run \/ nc_stop_pc # "idle" \/ nc_cancel
    ELSE rc_stop_evt

\* The runner is past a failed connect attempt or a lost connection.
FailedOrLost ==
    IF client = "NC" THEN nc_pc \in {"rl_closing", "sleeping"}
    ELSE rc_pc \in {"finally", "fin_close", "sleeping"}

\* C8: no step ends the runner loop unless a stop is requested or being
\* carried out, and a failed attempt or a lost connection leads to another
\* connect attempt (or to a stop).
C8_NeverGivesUp ==
    /\ [][(Exited' /\ ~Exited) => Stopping]_vars
    /\ FailedOrLost ~> (Attempting \/ Stopping)

\* The runner is in a new connect attempt after a backoff sleep, no stop
\* requested.
C8_Witness == Attempting /\ ~Stopping /\ streak >= 1

\* ------------------------------------------------------------------------
\* Claims about sending (SpecSend) and about the read timeout (Spec)
\* ------------------------------------------------------------------------

\* C9: every send call made with no live connection wrote nothing, logged
\* exactly one failure, did not raise, and its data is not among the data
\* written to a socket, then or later.
C9_SendWhileDisconnected ==
    \A i \in 1..Len(sends) :
        ~sends[i].live =>
            /\ ~sends[i].wrote
            /\ sends[i].logs = 1
            /\ ~sends[i].raised
            /\ \A j \in 1..Len(socket_out) : socket_out[j] # i

\* The runner is connected, not stopped, and waits in a socket read.
ConnectedReading ==
    IF client = "NC" THEN nc_pc = "reading" /\ nc_writer = "open" /\ nc_want_run
    ELSE rc_pc = "reading" /\ rc_sock = "open" /\ rc_connected /\ ~rc_stop_evt

\* C10: a read timeout of a connected, running client leaves it connected on
\* the same socket and waiting in the read again.
C10_ReadTimeoutNonFatal ==
    [][(ConnectedReading /\ (NC_ReadTimeout \/ RC_ReadTimeout)) => ConnectedReading']_vars

\* ------------------------------------------------------------------------
\* Claims about the end of a session and the receive buffer (Spec)
\* ------------------------------------------------------------------------

\* The runner waits in a socket read.
Reading == IF client = "NC" THEN nc_pc = "reading" ELSE rc_pc = "reading"

\* The runner is past the clean-up of a session: in its backoff sleep, at
\* the loop test, or in the connect call.
PastSession ==
    IF client = "NC" THEN nc_pc \in {"sleeping", "co_closing", "connecting"}
    ELSE rc_pc \in {"sleeping", "top", "connecting"}

\* The runner is inside open_connection / create_connection.
ConnectCall == IF client = "NC" THEN nc_pc = "connecting" ELSE rc_pc = "connecting"

\* The client holds no socket object.
SocketCleared == IF client = "NC" THEN nc_writer = "none" ELSE rc_sock = "none"

\* C11: once a read returned zero bytes the runner is out of the read loop;
\* from the end of that session's clean-up on the socket is closed and
\* is_connected is false, and the socket is cleared when the next connect
\* call is made.
C11_RemoteCloseEndsSession ==
    /\ event = "eof" => ~Reading
    /\ (event = "eof" /\ PastSession) => (~SocketOpen /\ ~IsConnected)
    /\ (event = "eof" /\ ConnectCall) => SocketCleared

\* A connection that had delivered data was closed by the server and the
\* runner is in its next connect call.
C11_Witness == event = "eof" /\ ConnectCall /\ rx # <<>> /\ ~Stopping

C13_FailedWriteKeepsState ==
    [][LET last == sends'[Len(sends')]
           conn == IF client = "NC"
                   THEN <<nc_writer, NC_is_connected, nc_buf, nc_backoff, nc_pc>>
                   ELSE <<rc_sock, rc_connected, rc_ring, rc_backoff, rc_pc>>
       IN  (Len(sends') = Len(sends) + 1 /\ last.live /\ last.failed) =>
               (last.logs = 1 /\ ~last.raised /\ conn' = conn)]_vars

\* A failed write is the last thing that happened, and the runner is in its
\* read loop on an open socket with received bytes in the buffer.
C13_Witness ==
    /\ sends # <<>>
    /\ LET last == sends[Len(sends)] IN last.live /\ last.failed /\ last.logs = 1
    /\ Reading /\ SocketOpen /\ IsConnected /\ Buf # <<>>

\* C14: ReconnectingClient changes _sock and _connected only under the lock
\* _send_raw holds: from the moment a send found a socket inside the lock
\* until its write is over, no step closes or clears that socket or changes
\* the flag.
C14_LockGuardsSocket ==
    [][(client = "RC" /\ rc_caller = "sending") =>
          (rc_sock' = rc_sock /\ rc_connected' = rc_connected)]_vars

\* ------------------------------------------------------------------------
\* Claims about the backoff sleep (SpecLife)
\* ------------------------------------------------------------------------

\* C15: the backoff sleep is cancellable: once stop has signalled the runner
\* (NetworkClient: the task is cancelled; ReconnectingClient: _stop_evt is
\* set) while it is in its backoff sleep, the runner can leave the sleep by a
\* step other than the end of the backoff interval.
C15_BackoffSleepCancellable ==
    (Sleeping /\ (IF client = "NC" THEN nc_cancel ELSE rc_stop_evt)) =>
        ENABLED (NextLife /\ ~(NC_SleepDone \/ RC_SleepDone) /\ ~Sleeping')

\* ------------------------------------------------------------------------
\* Claims about the encoders (SpecEnc)
\* ------------------------------------------------------------------------

\* C16: a send_cmd / send_ascii call whose command name or one of whose
\* arguments holds '@', CR or LF is rejected: nothing is written to the
\* socket and the failure is reported (raised or logged).
C16_EncoderPrecondition ==
    LET call == api_call.call
        special(t) == \E i \in 1..Len(t) : t[i] \in {AT, CR, LF}
    IN  (/\ call.fn \in {"send_cmd", "send_ascii"}
         /\ \E k \in 1..Len(call.parts) : special(call.parts[k]))
            => (api_call.written = <<>> /\ (api_call.raised \/ api_call.logs > 0))

C18_BinaryPushRoundTrip ==
    LET p == api_call.call.payload
        d == NC_drain(api_call.written, 0, {}, 1)
    IN  api_call.call.fn = "send_a_d" =>
            /\ api_call.written =
                   <<Ord.A, Ord.us, Ord.D, AT>> \o Decimal(Len(p)) \o <<AT>> \o p
                        \o <<AT, CR, LF>>
            /\ Frames(d.out) = <<api_call.written>>
            /\ d.buf = <<>>

\* send_a_d was called with the ten bytes "@\r\n@\r\n@\r\n@" and wrote 20.
C18_Witness ==
    /\ api_call.call.fn = "send_a_d"
    /\ api_call.call.payload = Fill(TAIL, 10)
    /\ Len(api_call.written) = 20

\* ------------------------------------------------------------------------
\* Claims about the frame handlers (SpecHandle)
\* ------------------------------------------------------------------------

\* C19: when the handler is given a well-formed A_D frame whose payload
\* length L is not a multiple of 8, it reports floor(L / 8) values and the
\* warning, and the decode does not fail: no exception is caught or let out.
C19_PartialPayloadDecoded ==
    \A i \in 1..Len(delivered) :
        LET f == delivered[i].frame
            o == IF client = "NC" THEN NC_on_receive(f) ELSE RC_on_frame(f)
        IN  \A L \in 0..Len(f) :
                (/\ L % 8 # 0
                 /\ \E p \in {Slice(f, Len(f) - 3 - L, Len(f) - 3)} :
                        Len(p) = L /\ f = Binary(TAG_A_D, Decimal(L), p))
                    => /\ o.kind = "values" /\ o.values = L \div 8
                       /\ o.warned
                       /\ ~o.raised /\ ~delivered[i].raised

\* ------------------------------------------------------------------------
\* Claims about the drain loop after a resynchronisation (SpecFrame)
\* ------------------------------------------------------------------------

\* C20: when the extractor dropped a byte in a drain pass, the loop went on
\* calling it in that pass, so that with the loop back at the socket read
\* the extractor finds no frame in the buffer.
C20_ResyncContinuesDrain ==
    DropCalls # {} =>
        ~(IF client = "NC" THEN NC_try_extract_frame(Buf) ELSE RC_try_extract(Buf)).some

\* ------------------------------------------------------------------------
\* Claims about single extractor calls (SpecFrame)
\* ------------------------------------------------------------------------

\* C21: an extractor call on a buffer that starts with an A_D or A_R header
\* with a decimal count n, holds the bytes the count calls for (n for A_D,
\* 44 + 48 n for A_R) and 3 more, and does not have '@' CR LF right after
\* them, removes exactly the first byte and returns no frame.
C21_TerminatorMismatchDrops ==
    \A i \in 1..Len(calls) :
        LET b    == calls[i].in
            at2  == Find(b, <<AT>>, 4)
        IN  \A n \in 0..Len(b) :
                LET need == IF Slice(b, 0, 3) = TAG_A_D THEN n ELSE 44 + 48 * n
                    pos  == at2 + 1 + need
                IN  (/\ Slice(b, 0, 4) \in {TAG_A_D \o <<AT>>, TAG_A_R \o <<AT>>}
                     /\ at2 >= 0
                     /\ Slice(b, 4, at2) = Decimal(n)
                     /\ Len(b) >= pos + 3
                     /\ Slice(b, pos, pos + 3) # TAIL)
                        => (~calls[i].some /\ calls[i].out = Tail(b))

\* C22: an extractor call on a buffer that starts with "A_D@" or "A_R@" and
\* holds a second '@', the text between the two being negative or no
\* integer, removes exactly the first byte and returns no frame.
C22_BadLengthDrops ==
    \A i \in 1..Len(calls) :
        LET b     == calls[i].in
            at2   == Find(b, <<AT>>, 4)
            field == PyInt(DecodeReplace(Slice(b, 4, at2)))
        IN  (/\ Slice(b, 0, 4) \in {TAG_A_D \o <<AT>>, TAG_A_R \o <<AT>>}
             /\ at2 >= 0
             /\ (~field.ok \/ field.val < 0))
                => (~calls[i].some /\ calls[i].out = Tail(b))

\* C23: every extractor call leaves the buffer as it is and returns no frame,
\* or removes exactly the first byte and returns no frame, or returns a frame
\* and removes exactly its bytes from the front; a call starts from the
\* buffer the call before it left.  So on a connection the frames delivered
\* lie in the bytes received at increasing offsets, in front of the buffer,
\* which is the end of the bytes received; what lies between them was
\* dropped.
C23_PrefixOnlyConsumption ==
    /\ \A i \in 1..Len(calls) :
          LET c == calls[i]
          IN  \/ ~c.some /\ c.out = c.in
              \/ ~c.some /\ c.in # <<>> /\ c.out = Tail(c.in)
              \/ c.some /\ c.frame # <<>> /\ c.in = c.frame \o c.out
    /\ \A i \in 1..(Len(calls) - 1) : calls[i + 1].in = calls[i].out
    /\ calls # <<>> => calls[Len(calls)].out = Buf
    /\ Len(Buf) <= Len(rx) /\ Buf = Slice(rx, Len(rx) - Len(Buf), Len(rx))
    /\ \A i \in 1..Len(delivered) :
          LET end == delivered[i].off + Len(delivered[i].frame)
          IN  /\ delivered[i].frame = Slice(rx, delivered[i].off, end)
              /\ end <= Len(rx) - Len(Buf)
              /\ i < Len(delivered) => end <= delivered[i + 1].off

\* One drain pass returned a frame, then dropped a byte, and bytes remain.
C23_Witness ==
    /\ Len(calls) = 2 /\ calls[1].some /\ 2 \in DropCalls
    /\ Buf # <<>> /\ delivered # <<>>

\* C24: the drain loop terminates.  Every extractor call that returns a frame
\* removes at least 2 bytes from the buffer, a drain pass is a run of such
\* calls closed by the one call that returns no frame, and the number of
\* frames of a pass is at most half the length of the buffer the pass
\* started with.
C24_DrainTerminates ==
    /\ \A i \in 1..Len(calls) :
          calls[i].some => /\ Len(calls[i].frame) >= 2
                           /\ Len(calls[i].out) + 2 <= Len(calls[i].in)
    /\ calls # <<>> =>
          /\ ~calls[Len(calls)].some
          /\ \A i \in 1..(Len(calls) - 1) : calls[i].some
          /\ 2 * (Len(calls) - 1) <= Len(calls[1].in)

\* A pass that handed over three frames before the closing call.
C24_Witness ==
    /\ Len(calls) = 4
    /\ \A i \in 1..3 : calls[i].some
    /\ ~calls[4].some

\* ------------------------------------------------------------------------
\* Claims about start and stop (SpecLife, Spec)
\* ------------------------------------------------------------------------

\* C25: restart after stop works.  Whenever ReconnectingClient's stop() has
\* returned and start(host, port) is called, be the previous runner thread
\* gone, in a backoff sleep longer than stop's join, or inside a connect
\* attempt, the call leaves a live runner that is in a connect attempt or
\* whose reconnect loop will make one.
C25_RestartAfterStop ==
    (/\ client = "RC" /\ rc_caller = "idle" /\ rc_stop_evt
     /\ \/ ~RC_thread_alive
        \/ rc_pc = "sleeping" /\ rc_backoff > RC_join_timeout
        \/ rc_pc = "connecting")
    => ENABLED (/\ RC_Start
                /\ RC_thread_alive'
                /\ rc_pc' = "connecting" \/ RC_runner_cond(rc_stop_evt'))

\* C26: one session at a time.  Across any interleaving of start and stop
\* calls a client has at most one live runner: the NetworkClient task
\* followed and the tasks left alive beside it are never more than one
\* together, and a live ReconnectingClient thread is the one self._thread
\* refers to.
C26_OneRunner ==
    /\ client = "NC" => (IF NC_runner_live THEN 1 ELSE 0) + nc_orphans <= 1
    /\ client = "RC" => (RC_thread_alive \/ rc_pc \in {"none", "dead"})

\* C27: no connection appears after stop.  In a state where a stop is
\* requested no step turns is_connected from false to true and no step is
\* the successful end of a connect attempt, which delivers the "Connected"
\* notification.
C27_NoConnectionAfterStop ==
    [][StopRequested =>
          /\ ~IsConnected => ~IsConnected'
          /\ ~(NC_ConnectOk(<<>>) \/ RC_ConnectOk(<<>>))]_vars

====
